---- MODULE Spec2Model ----
(***************************************************************************)
(* A model of the useEntity hook (src/src/useEntity.ts) and of the Entity  *)
(* helpers it relies on (src/src/entity.ts, src/src/util.ts).              *)
(*                                                                         *)
(* The hook keeps an Entity in a React state cell (`inner`), a ref to the  *)
(* entity seen by the latest invocation of the hook (`liveEntity`), a ref  *)
(* to the validator seen by the latest invocation (`liveValidator`) and a  *)
(* ref that records teardown (`isUnmounted`).  The updater methods write   *)
(* the state cell with setInner; the refs are refreshed only when the host *)
(* invokes the hook again (Render).  When the host does so is not decided  *)
(* by this code, so Render is an action of its own.                        *)
(*                                                                         *)
(* The change handlers (src/README.md), ObjectPath and maxSeverity         *)
(* (src/unnamed/part_000) and the validator combinators (src/src/entity.ts)*)
(* are modelled further down, each under a specification of its own; the   *)
(* variables of the other parts stay at rest in each specification.        *)
(***************************************************************************)
EXTENDS Integers, Sequences, FiniteSets, Bags, TLC

\* ---------------------------------------------------------------- bounds
\* Largest number carried by a value {a: n}.
MaxA == 1
\* Largest number of save promises that are unsettled at the same time.
MaxSaves == 2

\* ---------------------------------------------------------------- values
\* JavaScript values of the entity's type T: the number n, or the object
\* {a: n}; and the two absent values.
Num(n) == [kind |-> "num", a |-> n]
Obj(n) == [kind |-> "obj", a |-> n]
Null == [kind |-> "null", a |-> 0]
Undefined == [kind |-> "undefined", a |-> 0]

\* The non-null values the callers pass: the falsy number 0 and the objects.
Values == {Num(0)} \cup {Obj(n) : n \in 0..MaxA}
\* What a save promise can resolve with: T | undefined | void (and null).
Resolutions == Values \cup {Null, Undefined}
\* What save can capture as valueAtSaveTime.
Captured == Values \cup {Null}
\* What a save promise can reject with.
Errors == {"err1", "err2"}

\* JavaScript's ToBoolean, which decides `x || y`: null, undefined and the
\* number 0 are falsy, every object is truthy.
ToBoolean(v) ==
    CASE v.kind = "null" -> FALSE
      [] v.kind = "undefined" -> FALSE
      [] v.kind = "num" -> v.a # 0
      [] OTHER -> TRUE

\* value !== null && value !== undefined
isNonVoid(value) == value # Null /\ value # Undefined

\* ------------------------------------------------------------ validators
\* Validators are supplied by the caller; the hook only compares their
\* identity and applies them.  noValidations is the hook's default; the
\* other is a caller's validator, which flags a > 0 as an Error.
noValidations == "noValidations"
Validators == {noValidations, "maxZero"}

Diag(type, severity, message) ==
    [message |-> message, type |-> type, severity |-> severity, path |-> "a."]

Apply(validator, value) ==
    CASE validator = "maxZero" /\ value.kind \in {"obj", "num"} /\ value.a > 0 ->
            <<Diag("max", "Error", "a must not exceed 0")>>
      [] OTHER -> <<>>

\* ---------------------------------------------------------------- Entity
createUnsaved(draft) ==
    [draft |-> draft, diagnostics |-> <<>>, saved |-> Null,
     isSaving |-> "undefined", isDeleting |-> "undefined"]

createSaved(saved) ==
    [draft |-> Null, diagnostics |-> <<>>, saved |-> saved,
     isSaving |-> "undefined", isDeleting |-> "undefined"]

\* (entity.draft || entity.saved)
latestValue(entity) ==
    IF ToBoolean(entity.draft) THEN entity.draft ELSE entity.saved

\* ------------------------------------------------------------- the hook
VARIABLES
    inner,          \* the value of the useState cell
    liveEntity,     \* liveEntity.current
    liveValidator,  \* liveValidator.current
    validator,      \* the validator argument of the latest invocation
    isUnmounted,    \* isUnmounted.current
    pending,        \* bag of the valueAtSaveTime of every unsettled save
    last            \* history: the latest step, and what its promise did

vars == <<inner, liveEntity, liveValidator, validator, isUnmounted, pending, last>>

\* The variables of the other parts of the library.
VARIABLES
    props,          \* the props of a component that is a ControlledInput
    event,          \* what the latest call of a change handler did
    pa, pb, pc,     \* three ObjectPaths under construction
    items,          \* the list given to Validator.forList(validator)
    emitted,        \* the diagnostics the list validator returned
    found           \* what maxSeverity returned

handlerVars == <<props, event>>
pathVars == <<pa, pb, pc>>
validationVars == <<items, emitted, found>>

\* The state in which the other parts rest while the hook runs.
Rest == "rest"
OthersAtRest ==
    /\ props = Rest /\ event = Rest
    /\ pa = Rest /\ pb = Rest /\ pc = Rest
    /\ items = Rest /\ emitted = Rest /\ found = Rest

\* The record of a step: its name, whether the session was live when it
\* ran; for the settlement of a save, whether savePromise resolved with an
\* absent value, what the promise returned by save did and its error; for
\* an invocation of the hook, whether the validator's identity had changed.
Step(op) ==
    [op |-> op, live |-> ~isUnmounted, void |-> FALSE, outcome |-> "none",
     err |-> "none", revalidated |-> FALSE]

\* useState's initializer
initialEntity(initialValue, isSaved, v) ==
    [(IF isSaved THEN createSaved(initialValue) ELSE createUnsaved(initialValue))
        EXCEPT !.diagnostics = Apply(v, initialValue)]

Init ==
    \E initialValue \in Values, isSaved \in BOOLEAN, v \in Validators :
        /\ inner = initialEntity(initialValue, isSaved, v)
        /\ liveEntity = inner
        /\ liveValidator = v
        /\ validator = v
        /\ isUnmounted = FALSE
        /\ pending = EmptyBag
        /\ last = [op |-> "init", live |-> TRUE, void |-> FALSE,
                   outcome |-> "none", err |-> "none", revalidated |-> FALSE]
        /\ OthersAtRest

\* The entity written when the validator's identity changed.
revalidatedWithOld(entity, v) ==
    [entity EXCEPT !.diagnostics = Apply(liveValidator, latestValue(entity))]
revalidated(entity, v) ==
    [entity EXCEPT !.diagnostics = Apply(v, latestValue(entity))]

\* One invocation of the hook with validator argument v.  When v differs
\* from liveValidator.current the hook calls setInner while rendering, and
\* React invokes it again at once with the new state, so the refs end up
\* holding the state that was set.
Render(v) ==
    /\ ~isUnmounted
    /\ validator' = v
    /\ IF v # liveValidator
         THEN /\ liveValidator' = v
              /\ inner' = revalidated(inner, v)
              /\ liveEntity' = inner'
         ELSE /\ liveEntity' = inner
              /\ UNCHANGED <<inner, liveValidator>>
    /\ last' = [Step("render") EXCEPT !.revalidated = (v # liveValidator)]
    /\ UNCHANGED <<isUnmounted, pending>>
    /\ UNCHANGED <<handlerVars, pathVars, validationVars>>

\* The cleanup of the effect: the owning component is torn down.
Unmount ==
    /\ ~isUnmounted
    /\ isUnmounted' = TRUE
    /\ last' = Step("unmount")
    /\ UNCHANGED <<inner, liveEntity, liveValidator, validator, pending>>
    /\ UNCHANGED <<handlerVars, pathVars, validationVars>>

updated(current, newValue) ==
    [current EXCEPT !.draft = newValue,
                    !.diagnostics = Apply(liveValidator, newValue)]

update(newValue) ==
    /\ ~isUnmounted
    /\ inner' = updated(liveEntity, newValue)
    /\ last' = Step("update")
    /\ UNCHANGED <<liveEntity, liveValidator, validator, isUnmounted, pending>>
    /\ UNCHANGED <<handlerVars, pathVars, validationVars>>

savedUpdated(current, value) == [current EXCEPT !.saved = value]

updateSaved(value) ==
    /\ ~isUnmounted
    /\ inner' = savedUpdated(liveEntity, value)
    /\ last' = Step("updateSaved")
    /\ UNCHANGED <<liveEntity, liveValidator, validator, isUnmounted, pending>>
    /\ UNCHANGED <<handlerVars, pathVars, validationVars>>

savingSet(current, isSaving) ==
    [current EXCEPT !.isSaving = IF isSaving THEN "true" ELSE "false"]

setSaving(isSaving) ==
    /\ ~isUnmounted
    /\ inner' = savingSet(liveEntity, isSaving)
    /\ last' = Step("setSaving")
    /\ UNCHANGED <<liveEntity, liveValidator, validator, isUnmounted, pending>>
    /\ UNCHANGED <<handlerVars, pathVars, validationVars>>

\* The entity written by save(savePromise) before its await.
saveStartedSilently(current) == current
saveStarted(current) == [current EXCEPT !.isSaving = "true"]

\* save(savePromise), up to its await
save ==
    /\ ~isUnmounted
    /\ BagCardinality(pending) < MaxSaves
    /\ pending' = pending (+) SetToBag({latestValue(liveEntity)})
    /\ inner' = saveStarted(liveEntity)
    /\ last' = Step("save")
    /\ UNCHANGED <<liveEntity, liveValidator, validator, isUnmounted>>
    /\ UNCHANGED <<handlerVars, pathVars, validationVars>>

\* `if (isUnmounted.current) return;` and `if (!isUnmounted.current)`
discardsNever(unmounted) == FALSE
discards(unmounted) == unmounted

\* The entity written when savePromise resolved with fromPromise.
saveSucceededKeepsDraft(current, fromPromise, valueAtSaveTime) ==
    LET saved == IF isNonVoid(fromPromise) THEN fromPromise ELSE valueAtSaveTime
    IN  [current EXCEPT !.isSaving = "false", !.saved = saved,
                        !.diagnostics = Apply(liveValidator, saved)]
saveSucceeded(current, fromPromise, valueAtSaveTime) ==
    LET saved == IF isNonVoid(fromPromise) THEN fromPromise ELSE valueAtSaveTime
    IN  [current EXCEPT !.isSaving = "false", !.draft = Null, !.saved = saved,
                        !.diagnostics = Apply(liveValidator, saved)]

\* save(savePromise), from the await on, when savePromise resolves
saveResolved(valueAtSaveTime, fromPromise) ==
    /\ BagIn(valueAtSaveTime, pending)
    /\ pending' = pending (-) SetToBag({valueAtSaveTime})
    /\ IF discards(isUnmounted)
         THEN UNCHANGED inner
         ELSE inner' = saveSucceeded(liveEntity, fromPromise, valueAtSaveTime)
    /\ last' = [Step("resolve") EXCEPT !.void = ~isNonVoid(fromPromise),
                                       !.outcome = "fulfilled"]
    /\ UNCHANGED <<liveEntity, liveValidator, validator, isUnmounted>>
    /\ UNCHANGED <<handlerVars, pathVars, validationVars>>

\* The entity written when savePromise rejected.
saveFailed(current) == [current EXCEPT !.isSaving = "false"]

\* What the promise returned by save does when savePromise rejected with e:
\* `throw e` ends the catch block whether or not the state was written.
rethrownOnlyWhenLive(e, unmounted) ==
    IF unmounted THEN [outcome |-> "fulfilled", err |-> "none"]
    ELSE [outcome |-> "rejected", err |-> e]
rethrown(e, unmounted) == [outcome |-> "rejected", err |-> e]

\* save(savePromise), from the await on, when savePromise rejects with e
saveRejected(valueAtSaveTime, e) ==
    /\ BagIn(valueAtSaveTime, pending)
    /\ pending' = pending (-) SetToBag({valueAtSaveTime})
    /\ IF discards(isUnmounted)
         THEN UNCHANGED inner
         ELSE inner' = saveFailed(liveEntity)
    /\ last' = [Step("reject") EXCEPT !.outcome = rethrown(e, isUnmounted).outcome,
                                      !.err = rethrown(e, isUnmounted).err]
    /\ UNCHANGED <<liveEntity, liveValidator, validator, isUnmounted>>
    /\ UNCHANGED <<handlerVars, pathVars, validationVars>>

Next ==
    \/ \E v \in Validators : Render(v)
    \/ Unmount
    \/ \E newValue \in Values : update(newValue)
    \/ \E value \in Values : updateSaved(value)
    \/ \E isSaving \in BOOLEAN : setSaving(isSaving)
    \/ save
    \/ \E valueAtSaveTime \in Captured, fromPromise \in Resolutions :
          saveResolved(valueAtSaveTime, fromPromise)
    \/ \E valueAtSaveTime \in Captured, e \in Errors :
          saveRejected(valueAtSaveTime, e)

Spec == Init /\ [][Next]_vars

\* A session whose owner never calls setSaving.
NextNoSetSaving ==
    \/ \E v \in Validators : Render(v)
    \/ Unmount
    \/ \E newValue \in Values : update(newValue)
    \/ \E value \in Values : updateSaved(value)
    \/ save
    \/ \E valueAtSaveTime \in Captured, fromPromise \in Resolutions :
          saveResolved(valueAtSaveTime, fromPromise)
    \/ \E valueAtSaveTime \in Captured, e \in Errors :
          saveRejected(valueAtSaveTime, e)

SpecNoSetSaving == Init /\ [][NextNoSetSaving]_vars

\* All the variables of the module.
allVars == <<vars, handlerVars, pathVars, validationVars>>

\* The state in which the hook rests while another part runs.
HookAtRest ==
    /\ inner = Rest /\ liveEntity = Rest /\ liveValidator = Rest
    /\ validator = Rest /\ isUnmounted = Rest /\ pending = Rest /\ last = Rest

\* ------------------------------------------------- the change handlers
\* The props of a ControlledInput<T> with T = {x, y}: disabled?: boolean,
\* name?: string, onChange?: ChangeHandler<T> (present or not), value: T.
FieldNames == {"x", "y"}
Scalars == {0, 1}
ObjectValues == [FieldNames -> Scalars]
OptionalBooleans == {"undefined", "false", "true"}
OptionalNames == {"undefined", "score"}
Props ==
    [disabled : OptionalBooleans, name : OptionalNames, onChange : BOOLEAN,
     value : ObjectValues]

\* What a caller can pass as the handler's second argument.
FieldArguments == FieldNames \cup {"undefined"}

\* What a call of a handler did: it returned without emitting, it invoked
\* onChange(newVal, name), or it threw a MissingFieldError.
Returned == [kind |-> "return", newVal |-> "none", name |-> "none"]
OnChange(newVal, name) == [kind |-> "onChange", newVal |-> newVal, name |-> name]
MissingFieldError == [kind |-> "MissingFieldError", newVal |-> "none", name |-> "none"]

replaceChangeHandlerIgnoresDisabled(p, val) ==
    IF ~p.onChange THEN Returned ELSE OnChange(val, p.name)
replaceChangeHandlerImplementation(p, val) ==
    IF p.disabled = "true" \/ ~p.onChange THEN Returned
    ELSE OnChange(val, p.name)

fieldChangeHandlerImplementation(p, val, fieldName) ==
    IF p.disabled = "true" \/ ~p.onChange THEN Returned
    ELSE IF fieldName \notin FieldNames THEN MissingFieldError
    ELSE OnChange([p.value EXCEPT ![fieldName] = val], p.name)

\* The record of a call: the handler, its arguments and what it did.
Call(handler, fieldName, did) ==
    [handler |-> handler, fieldName |-> fieldName, did |-> did]
NoCall == Call("none", "undefined", Returned)

HandlersInit ==
    /\ props \in Props
    /\ event = NoCall
    /\ HookAtRest
    /\ pa = Rest /\ pb = Rest /\ pc = Rest
    /\ items = Rest /\ emitted = Rest /\ found = Rest

\* The parent renders the component with other props.
SetProps(p) ==
    /\ p # props
    /\ props' = p
    /\ event' = NoCall
    /\ UNCHANGED <<vars, pathVars, validationVars>>

useReplaceChangeHandler(val) ==
    /\ event' = Call("useReplaceChangeHandler", "undefined",
                     replaceChangeHandlerImplementation(props, val))
    /\ UNCHANGED <<props, vars, pathVars, validationVars>>

\* makeReplaceChangeHandler(component) reads component.props at the call.
makeReplaceChangeHandler(val) ==
    /\ event' = Call("makeReplaceChangeHandler", "undefined",
                     replaceChangeHandlerImplementation(props, val))
    /\ UNCHANGED <<props, vars, pathVars, validationVars>>

useFieldChangeHandler(val, fieldName) ==
    /\ event' = Call("useFieldChangeHandler", fieldName,
                     fieldChangeHandlerImplementation(props, val, fieldName))
    /\ UNCHANGED <<props, vars, pathVars, validationVars>>

\* makeFieldChangeHandler(component) reads component.props at the call.
makeFieldChangeHandler(val, fieldName) ==
    /\ event' = Call("makeFieldChangeHandler", fieldName,
                     fieldChangeHandlerImplementation(props, val, fieldName))
    /\ UNCHANGED <<props, vars, pathVars, validationVars>>

HandlersNext ==
    \/ \E p \in Props : SetProps(p)
    \/ \E val \in ObjectValues : useReplaceChangeHandler(val)
    \/ \E val \in ObjectValues : makeReplaceChangeHandler(val)
    \/ \E val \in Scalars, fieldName \in FieldArguments :
          useFieldChangeHandler(val, fieldName)
    \/ \E val \in Scalars, fieldName \in FieldArguments :
          makeFieldChangeHandler(val, fieldName)

SpecHandlers == HandlersInit /\ [][HandlersNext]_allVars

\* ------------------------------------------------------------ ObjectPath
\* An ObjectPath is a string; strings are sequences of one-character strings
\* here so that endsWith, startsWith, substring and charAt are computed.
\* MaxSegments is the number of segments the three paths hold together.
MaxSegments == 4

EMPTY == <<>>
DELIMITER == "."
ACCEPTABLE_SUFFIXES == <<"undefined", ".", "[">>
DecimalDigits == <<"0", "1", "2", "3", "4", "5", "6", "7", "8", "9">>
Digits == {DecimalDigits[i] : i \in 1..Len(DecimalDigits)}

\* The parts (string | number) given to create, extend and prefix: the field
\* names a and ab, the empty string, the digit string '0' and the number 0.
StringPart(text) == [type |-> "string", text |-> text]
NumberPart(text) == [type |-> "number", text |-> text]
Parts ==
    {StringPart(<<"a">>), StringPart(<<"a", "b">>), StringPart(<<>>),
     StringPart(<<"0">>), NumberPart(<<"0">>)}

\* /^\d+$/.test(part)
IsDigits(text) == Len(text) > 0 /\ \A i \in 1..Len(text) : text[i] \in Digits

createPart(part) ==
    IF part.type = "string" /\ part.text = <<>> THEN EMPTY
    ELSE IF part.type = "number" \/ IsDigits(part.text)
         THEN <<"[">> \o part.text \o <<"]">>
    ELSE part.text \o <<DELIMITER>>

\* String.prototype.startsWith, endsWith and charAt.
StringStartsWith(str, search) ==
    Len(search) <= Len(str) /\ SubSeq(str, 1, Len(search)) = search
StringEndsWith(str, char) == Len(str) > 0 /\ str[Len(str)] = char
charAt(str, pos) == IF pos < Len(str) THEN str[pos + 1] ELSE ""

\* lodash trimEnd(str, chars): removes every trailing occurrence.
RECURSIVE trimEnd(_, _)
trimEnd(str, char) ==
    IF StringEndsWith(str, char) THEN trimEnd(SubSeq(str, 1, Len(str) - 1), char)
    ELSE str

concatFromLeftOperand(left, right) ==
    IF left = EMPTY THEN right
    ELSE IF right = EMPTY THEN left
    ELSE LET endsOnDelimiter == StringEndsWith(left, DELIMITER)
             needsLeadingDelimiter == ~StringStartsWith(left, <<"[">>)
         IN  IF endsOnDelimiter /\ ~needsLeadingDelimiter
                 THEN SubSeq(left, 1, Len(left) - 1) \o right
             ELSE IF needsLeadingDelimiter /\ ~endsOnDelimiter
                 THEN left \o <<DELIMITER>> \o right
             ELSE left \o right
concat(left, right) ==
    IF left = EMPTY THEN right
    ELSE IF right = EMPTY THEN left
    ELSE LET endsOnDelimiter == StringEndsWith(left, DELIMITER)
             needsLeadingDelimiter == ~StringStartsWith(right, <<"[">>)
         IN  IF endsOnDelimiter /\ ~needsLeadingDelimiter
                 THEN SubSeq(left, 1, Len(left) - 1) \o right
             ELSE IF needsLeadingDelimiter /\ ~endsOnDelimiter
                 THEN left \o <<DELIMITER>> \o right
             ELSE left \o right

extend(path, and) == concat(path, createPart(and))
prefix(path, prefixVal) == concat(createPart(prefixVal), path)

\* parts.reduce((s, v) => extend(s, v), EMPTY)
RECURSIVE create(_)
create(parts) ==
    IF parts = <<>> THEN EMPTY
    ELSE extend(create(SubSeq(parts, 1, Len(parts) - 1)), parts[Len(parts)])

startsWithAnySuffix(path, prefixVal) ==
    IF prefixVal = EMPTY THEN TRUE
    ELSE IF StringEndsWith(prefixVal, DELIMITER)
         THEN StringStartsWith(path, trimEnd(prefixVal, DELIMITER))
    ELSE StringStartsWith(path, prefixVal)
startsWith(path, prefixVal) ==
    IF prefixVal = EMPTY THEN TRUE
    ELSE IF StringEndsWith(prefixVal, DELIMITER)
         THEN LET trimmedPath == trimEnd(prefixVal, DELIMITER)
              IN  IF ~StringStartsWith(path, trimmedPath) THEN FALSE
                  ELSE LET charAfter == charAt(path, Len(trimmedPath))
                       IN  \E i \in 1..Len(ACCEPTABLE_SUFFIXES) :
                              ACCEPTABLE_SUFFIXES[i] = charAfter
    ELSE StringStartsWith(path, prefixVal)

\* The segments (field names and indices) a part contributes, kept beside
\* each path under construction so that properties can name them.
SegmentsOf(part) ==
    IF part.type = "string" /\ part.text = <<>> THEN <<>>
    ELSE IF part.type = "number" \/ IsDigits(part.text)
         THEN <<[kind |-> "index", text |-> part.text]>>
    ELSE <<[kind |-> "field", text |-> part.text]>>
RECURSIVE SegmentsOfAll(_)
SegmentsOfAll(parts) ==
    IF parts = <<>> THEN <<>>
    ELSE SegmentsOf(Head(parts)) \o SegmentsOfAll(Tail(parts))

Built(path, segments) == [path |-> path, segments |-> segments]

\* The argument lists of the calls create(), create(x) and create(x, y).
PartLists == {<<>>} \cup {<<x>> : x \in Parts} \cup {<<x, y>> : x, y \in Parts}

PathInit ==
    /\ pa = Built(EMPTY, <<>>) /\ pb = Built(EMPTY, <<>>) /\ pc = Built(EMPTY, <<>>)
    /\ HookAtRest
    /\ props = Rest /\ event = Rest
    /\ items = Rest /\ emitted = Rest /\ found = Rest

Targets == {"pa", "pb", "pc"}
PathOf(target) == IF target = "pa" THEN pa ELSE IF target = "pb" THEN pb ELSE pc

\* The value of the path named name after built was assigned to target.
Assigned(name, target, built) == IF target = name THEN built ELSE PathOf(name)
WithinBound(target, built) ==
    Len(Assigned("pa", target, built).segments)
        + Len(Assigned("pb", target, built).segments)
        + Len(Assigned("pc", target, built).segments) <= MaxSegments

PathCreate(target, parts) ==
    LET built == Built(create(parts), SegmentsOfAll(parts))
    IN  /\ WithinBound(target, built)
        /\ pa' = Assigned("pa", target, built)
        /\ pb' = Assigned("pb", target, built)
        /\ pc' = Assigned("pc", target, built)
        /\ UNCHANGED <<vars, handlerVars, validationVars>>

PathExtend(target, and) ==
    LET built == Built(extend(PathOf(target).path, and),
                       PathOf(target).segments \o SegmentsOf(and))
    IN  /\ WithinBound(target, built)
        /\ pa' = Assigned("pa", target, built)
        /\ pb' = Assigned("pb", target, built)
        /\ pc' = Assigned("pc", target, built)
        /\ UNCHANGED <<vars, handlerVars, validationVars>>

PathPrefix(target, prefixVal) ==
    LET built == Built(prefix(PathOf(target).path, prefixVal),
                       SegmentsOf(prefixVal) \o PathOf(target).segments)
    IN  /\ WithinBound(target, built)
        /\ pa' = Assigned("pa", target, built)
        /\ pb' = Assigned("pb", target, built)
        /\ pc' = Assigned("pc", target, built)
        /\ UNCHANGED <<vars, handlerVars, validationVars>>

PathConcat(target, left, right) ==
    LET built == Built(concat(PathOf(left).path, PathOf(right).path),
                       PathOf(left).segments \o PathOf(right).segments)
    IN  /\ WithinBound(target, built)
        /\ pa' = Assigned("pa", target, built)
        /\ pb' = Assigned("pb", target, built)
        /\ pc' = Assigned("pc", target, built)
        /\ UNCHANGED <<vars, handlerVars, validationVars>>

PathNext ==
    \/ \E target \in Targets, parts \in PartLists : PathCreate(target, parts)
    \/ \E target \in Targets, and \in Parts : PathExtend(target, and)
    \/ \E target \in Targets, prefixVal \in Parts : PathPrefix(target, prefixVal)
    \/ \E target, left, right \in Targets : PathConcat(target, left, right)

SpecPath == PathInit /\ [][PathNext]_allVars

\* ------------------------------------------- list validation, maxSeverity
MaxItems == 2

\* The ordinals of the Severity enumeration: the lower, the more severe.
Severity == [Error |-> 0, Warning |-> 1, Info |-> 2]

Diagnostic(message, type, severity, path) ==
    [message |-> message, type |-> type, severity |-> severity, path |-> path]

\* `${part}` for a number: its decimal digits.
RECURSIVE NumberToString(_)
NumberToString(n) ==
    IF n < 10 THEN <<DecimalDigits[n + 1]>>
    ELSE NumberToString(n \div 10) \o <<DecimalDigits[(n % 10) + 1]>>

\* The items of a list and what an item validator emits for each: nothing,
\* one diagnostic at a., or that one and then one at the item's root.
ListItems == {"ok", "bad", "worse"}
Required == Diagnostic("Required", "required", Severity.Error,
                       create(<<StringPart(<<"a">>)>>))
TooLong == Diagnostic("Too long", "maxLength", Severity.Warning, EMPTY)
Emissions(value) ==
    IF value = "ok" THEN <<>>
    ELSE IF value = "bad" THEN <<Required>>
    ELSE <<Required, TooLong>>

\* Diagnostics are objects: a heap is the sequence of the objects allocated
\* and a reference is an index into it. An allocating validator constructs
\* its diagnostics on every call; a reusing validator was constructed with
\* its two diagnostics and returns those same objects on every call.
ItemValidators == {"allocating", "reusing"}
HeapBefore(itemValidator) == IF itemValidator = "reusing" THEN <<Required, TooLong>> ELSE <<>>
Validate(itemValidator, value, heap) ==
    IF itemValidator = "reusing"
        THEN [heap |-> heap, refs |-> [k \in 1..Len(Emissions(value)) |-> k]]
    ELSE [heap |-> heap \o Emissions(value),
          refs |-> [k \in 1..Len(Emissions(value)) |-> Len(heap) + k]]

\* diagnostics.forEach(v => (v.path = ObjectPath.prefix(v.path, propName)))
RECURSIVE forEachPrefix(_, _, _)
forEachPrefix(heap, refs, propName) ==
    IF refs = <<>> THEN heap
    ELSE forEachPrefix([heap EXCEPT ![Head(refs)].path = prefix(@, propName)],
                       Tail(refs), propName)

validatePropertyUnprefixed(propName, itemValidator, value, heap) ==
    Validate(itemValidator, value, heap)
validateProperty(propName, itemValidator, value, heap) ==
    LET diagnostics == Validate(itemValidator, value, heap)
    IN  [heap |-> forEachPrefix(diagnostics.heap, diagnostics.refs, propName),
         refs |-> diagnostics.refs]

\* flatMap(items, (v, i) => validateProperty(i, validator, v)), from index i.
RECURSIVE flatMapFrom(_, _, _, _)
flatMapFrom(itemValidator, list, i, heap) ==
    IF i = Len(list) THEN [heap |-> heap, refs |-> <<>>]
    ELSE LET here == validateProperty(NumberPart(NumberToString(i)), itemValidator,
                                      list[i + 1], heap)
             rest == flatMapFrom(itemValidator, list, i + 1, here.heap)
         IN  [heap |-> rest.heap, refs |-> here.refs \o rest.refs]

\* Validator.forList(validator)(list), as the caller reads the result.
forList(itemValidator, list) ==
    LET result == flatMapFrom(itemValidator, list, 0, HeapBefore(itemValidator))
    IN  [k \in 1..Len(result.refs) |-> result.heap[result.refs[k]]]

\* lodash sortBy(collection, d => d.severity): a stable sort.
RECURSIVE insertBySeverity(_, _)
insertBySeverity(d, sorted) ==
    IF sorted = <<>> THEN <<d>>
    ELSE IF Head(sorted).severity <= d.severity
         THEN <<Head(sorted)>> \o insertBySeverity(d, Tail(sorted))
    ELSE <<d>> \o sorted
RECURSIVE sortBy(_)
sortBy(diagnostics) ==
    IF diagnostics = <<>> THEN <<>>
    ELSE insertBySeverity(diagnostics[Len(diagnostics)],
                          sortBy(SubSeq(diagnostics, 1, Len(diagnostics) - 1)))

\* The argument of maxSeverity: Diagnostic[] | undefined.
Given(diagnostics) == [given |-> TRUE, diagnostics |-> diagnostics]
NotGiven == [given |-> FALSE, diagnostics |-> <<>>]

maxSeverityOfLast(argument) ==
    IF ~(argument.given /\ Len(argument.diagnostics) > 0) THEN Null
    ELSE Num(sortBy(argument.diagnostics)[Len(argument.diagnostics)].severity)
maxSeverity(argument) ==
    IF ~(argument.given /\ Len(argument.diagnostics) > 0) THEN Null
    ELSE Num(sortBy(argument.diagnostics)[1].severity)

Lists(S) == UNION {[1..n -> S] : n \in 0..MaxItems}
SomeDiagnostics ==
    {Diagnostic("Required", "required", Severity.Error, EMPTY),
     Diagnostic("Required", "required", Severity.Warning, EMPTY),
     Diagnostic("Too long", "maxLength", Severity.Warning, EMPTY),
     Diagnostic("Unusual", "unusual", Severity.Info, EMPTY)}
Arguments == {NotGiven} \cup {Given(list) : list \in Lists(SomeDiagnostics)}

ValidationInit ==
    /\ items = <<>>
    /\ emitted = [validator |-> "allocating", diagnostics |-> <<>>]
    /\ found = [argument |-> NotGiven, result |-> Null]
    /\ HookAtRest
    /\ props = Rest /\ event = Rest
    /\ pa = Rest /\ pb = Rest /\ pc = Rest

CallForList(itemValidator, list) ==
    /\ items' = list
    /\ emitted' = [validator |-> itemValidator, diagnostics |-> forList(itemValidator, list)]
    /\ UNCHANGED <<found, vars, handlerVars, pathVars>>

CallMaxSeverity(argument) ==
    /\ found' = [argument |-> argument, result |-> maxSeverity(argument)]
    /\ UNCHANGED <<items, emitted, vars, handlerVars, pathVars>>

ValidationNext ==
    \/ \E itemValidator \in ItemValidators, list \in Lists(ListItems) :
          CallForList(itemValidator, list)
    \/ \E argument \in Arguments : CallMaxSeverity(argument)

SpecValidation == ValidationInit /\ [][ValidationNext]_allVars

C2_SaveFailureKeepsEdit ==
    [][ \A valueAtSaveTime \in Captured, e \in Errors :
          (/\ last'.op = "reject" /\ ~isUnmounted
           /\ saveRejected(valueAtSaveTime, e)) =>
             /\ inner'.isSaving = "false"
             /\ inner'.draft = inner.draft
             /\ inner'.saved = inner.saved
             /\ last'.outcome = "rejected"
             /\ last'.err = e ]_vars

\* C3: a settlement (success or failure) that happens after teardown writes
\* nothing: the entity is what it was before the settlement.
C3_NoUpdateAfterTeardown ==
    [][ (isUnmounted /\ last'.op \in {"resolve", "reject"}) =>
           (inner' = inner /\ liveEntity' = liveEntity) ]_vars

\* A save was settled after teardown and the entity still says isSaving.
C3_Witness ==
    /\ last.op \in {"resolve", "reject"} /\ ~last.live
    /\ isUnmounted /\ inner.isSaving = "true"

\* C4 as stated: the promise returned by save rejects exactly when the
\* session is live at the settlement; after teardown it does not reject.
C4_RejectionOnlyWhenLive ==
    last.op = "reject" => (last.outcome = "rejected" <=> last.live)

\* C4 amended: when savePromise rejects with e, the promise returned by
\* save rejects with e, whether or not the session is live.
C4_RejectionAlwaysRethrown ==
    [][ last'.op = "reject" =>
          \A valueAtSaveTime \in Captured, e \in Errors :
             saveRejected(valueAtSaveTime, e) =>
                (last'.outcome = "rejected" /\ last'.err = e) ]_vars

\* A rejection after teardown has reached the caller of save.
C4_Witness ==
    last.op = "reject" /\ ~last.live /\ last.outcome = "rejected" /\ last.err = "err2"

\* C5: right after the call of save, before its promise settles, the state
\* cell holds isSaving = true and the promise is among the unsettled ones.
C5_SavingSetBeforeSettlement ==
    last.op = "save" => (inner.isSaving = "true" /\ BagCardinality(pending) >= 1)

\* save was called on an entity that did not say isSaving.
C5_Witness ==
    /\ last.op = "save" /\ inner.isSaving = "true"
    /\ liveEntity.isSaving # "true" /\ BagCardinality(pending) = 1

\* C6: update(v) gives draft = v and diagnostics = validator(v), and leaves
\* saved, isSaving and isDeleting as they were before the call.
C6_UpdateFrame ==
    [][ \A newValue \in Values :
          update(newValue) =>
             /\ inner'.draft = newValue
             /\ inner'.diagnostics = Apply(validator, newValue)
             /\ inner'.saved = inner.saved
             /\ inner'.isSaving = inner.isSaving
             /\ inner'.isDeleting = inner.isDeleting ]_vars

\* C7: updateSaved(v) gives saved = v and leaves draft, diagnostics,
\* isSaving and isDeleting as they were before the call.
C7_UpdateSavedFrame ==
    [][ \A value \in Values :
          updateSaved(value) =>
             /\ inner'.saved = value
             /\ inner'.draft = inner.draft
             /\ inner'.diagnostics = inner.diagnostics
             /\ inner'.isSaving = inner.isSaving
             /\ inner'.isDeleting = inner.isDeleting ]_vars

\* C8: draft and saved are never both null.
C8_NeverBothNull ==
    ~(inner.draft = Null /\ inner.saved = Null)

\* C9: latestValue(entity) is draft when draft is not null and saved
\* otherwise, and it is not null.
C9_LatestValue ==
    /\ latestValue(inner) = (IF inner.draft # Null THEN inner.draft ELSE inner.saved)
    /\ latestValue(inner) # Null

FieldHandlers == {"useFieldChangeHandler", "makeFieldChangeHandler"}
Handlers == FieldHandlers \cup {"useReplaceChangeHandler", "makeReplaceChangeHandler"}

\* C11: no handler invokes onChange while the component's disabled prop is
\* true, whatever value and field name it is called with.
C11_DisabledEmitsNothing ==
    (event.handler \in Handlers /\ props.disabled = "true") =>
        event.did.kind # "onChange"

\* A field handler was called with a field name on a disabled component
\* that has an onChange, and returned without emitting.
C11_Witness ==
    /\ event.handler = "makeFieldChangeHandler" /\ event.fieldName = "x"
    /\ props.disabled = "true" /\ props.onChange
    /\ event.did = Returned

\* C12: a field handler called without a field name throws a
\* MissingFieldError, and does not invoke onChange.
C12_MissingFieldAlwaysThrown ==
    (event.handler \in FieldHandlers /\ event.fieldName = "undefined") =>
        event.did = MissingFieldError

\* Whether q is a strict textual prefix of the field name f.
StrictPrefix(q, f) == Len(q) < Len(f) /\ SubSeq(f, 1, Len(q)) = q
FieldNameTexts == {<<"a">>, <<"a", "b">>}
PathsBuilt == {pa, pb, pc}

\* C13: when the first segment of a constructed path p is a field name
\* that differs from the field name q and has q as a strict textual prefix,
\* startsWith(p, create(q)) is false; when the first segment of p is
\* exactly q, startsWith(p, create(q)) is true, whatever segment follows.
C13_StartsWithSiblings ==
    \A p \in PathsBuilt, q \in FieldNameTexts :
        (p.segments # <<>> /\ p.segments[1].kind = "field") =>
            LET first == p.segments[1].text
                answer == startsWith(p.path, create(<<StringPart(q)>>))
            IN  /\ StrictPrefix(q, first) => ~answer
                /\ first = q => answer

\* One path starts with field a followed by a field; the other starts with
\* field ab, the sibling of a, followed by an index.
C13_Witness ==
    /\ pa.path = <<"a", ".", "a", "b", ".">>
    /\ pb.path = <<"a", "b", "[", "0", "]">>
    /\ startsWith(pa.path, create(<<StringPart(<<"a">>)>>))
    /\ ~startsWith(pb.path, create(<<StringPart(<<"a">>)>>))
    /\ startsWith(pb.path, create(<<StringPart(<<"a", "b">>)>>))

\* C14: concat is associative over the paths built with create, extend,
\* prefix and concat, the empty path included.
C14_ConcatAssociative ==
    concat(concat(pa.path, pb.path), pc.path)
        = concat(pa.path, concat(pb.path, pc.path))

\* Three non-empty paths where the separator rule acts on both joints: a
\* field, then an index, then a field.
C14_Witness ==
    /\ pa.path = <<"a", ".">>
    /\ pb.path = <<"[", "0", "]">>
    /\ pc.path = <<"a", "b", ".">>
    /\ concat(concat(pa.path, pb.path), pc.path)
           = <<"a", "[", "0", "]", ".", "a", "b", ".">>

\* What the claim expects of Validator.forList: for each item in order, the
\* diagnostics emitted for it in order, each path prefixed with [i].
RECURSIVE ExpectedFrom(_, _)
ExpectedFrom(list, i) ==
    IF i = Len(list) THEN <<>>
    ELSE LET emissions == Emissions(list[i + 1])
         IN  [k \in 1..Len(emissions) |->
                 [emissions[k] EXCEPT
                     !.path = concat(<<"[">> \o NumberToString(i) \o <<"]">>, @)]]
             \o ExpectedFrom(list, i + 1)

MostSevere(diagnostics) ==
    LET k == CHOOSE k \in 1..Len(diagnostics) :
                 /\ \A j \in 1..Len(diagnostics) :
                        diagnostics[k].severity <= diagnostics[j].severity
                 /\ \A j \in 1..(k - 1) :
                        diagnostics[j].severity > diagnostics[k].severity
    IN  diagnostics[k]
Absent(argument) == ~argument.given \/ argument.diagnostics = <<>>

\* C16 as stated: maxSeverity(diagnostics) returns the earliest diagnostic of the
\* lowest severity ordinal, and null when the list is empty or absent.
C16_MaxSeverityDiagnostic ==
    found.result = IF Absent(found.argument) THEN Null
                   ELSE MostSevere(found.argument.diagnostics)

\* C16 amended: maxSeverity(diagnostics) returns the lowest severity
\* ordinal found in the list (the Severity, not the diagnostic carrying it),
\* and null when the list is empty or absent.
C16_MaxSeverityOrdinal ==
    found.result = IF Absent(found.argument) THEN Null
                   ELSE Num(MostSevere(found.argument.diagnostics).severity)

\* A list of a Warning followed by an Error gave Severity.Error.
C16_Witness ==
    /\ found.argument.given
    /\ Len(found.argument.diagnostics) = 2
    /\ found.argument.diagnostics[1].severity = Severity.Warning
    /\ found.argument.diagnostics[2].severity = Severity.Error
    /\ found.result = Num(Severity.Error)

\* The synchronous operations of the updater.
SyncOps == {"update", "updateSaved", "setSaving"}

\* C17: a synchronous operation issued after another one, with or without
\* a render between them, acts on the state the earlier one left, so that
\* the entity reflects both: after update(v) followed by setSaving(true) it
\* has draft = v and isSaving = true.
C17_NoMutationLost ==
    [][ last.op \in SyncOps \cup {"render"} =>
          /\ \A newValue \in Values :
                update(newValue) => inner' = updated(inner, newValue)
          /\ \A value \in Values :
                updateSaved(value) => inner' = savedUpdated(inner, value)
          /\ \A isSaving \in BOOLEAN :
                setSaving(isSaving) => inner' = savingSet(inner, isSaving) ]_vars

\* C18: when a save succeeds after an update issued while it was in flight,
\* draft is null and saved is the save's result or, when that is absent, a
\* value captured at a save call; when update(v) runs after the
\* save-completion, draft is v and saved is what the completion installed.
C18_LastOfUpdateAndSaveWins ==
    [][ /\ \A valueAtSaveTime \in Captured, fromPromise \in Resolutions :
              (last.op = "update" /\ ~isUnmounted
                  /\ saveResolved(valueAtSaveTime, fromPromise)) =>
                 /\ inner'.draft = Null
                 /\ inner'.saved = IF isNonVoid(fromPromise) THEN fromPromise
                                   ELSE valueAtSaveTime
        /\ \A newValue \in Values :
              (last.op = "resolve" /\ last.live /\ update(newValue)) =>
                 /\ inner'.draft = newValue
                 /\ inner'.saved = inner.saved ]_vars

\* C19: when setSaving is never called, every rendered state of a live
\* session in which a promise passed to save is still unsettled has
\* isSaving = true.
C19_SavingWhilePending ==
    (last.op = "render" /\ ~isUnmounted /\ BagCardinality(pending) > 0) =>
        inner.isSaving = "true"

====
